---- MODULE Spec2Model ----
(***************************************************************************)
(* Auth Gate of the furniture visualizer (src/services/auth.js): a single  *)
(* admin credential, a progressive lockout counter and a session token,    *)
(* each kept in one AsyncStorage slot.                                     *)
(*                                                                         *)
(* Strings are sequences of character codes.  Times are milliseconds.      *)
(* A 32-bit integer is a pair <<hi, lo>> of 16-bit halves, so that the     *)
(* arithmetic of hashPassword keeps its width.                             *)
(***************************************************************************)
EXTENDS Integers, Sequences, FiniteSets, TLC

\* ------------------------------------------------------------- constants

\* auth.js:10  SESSION_TIMEOUT = 30 * 60 * 1000
SESSION_TIMEOUT == 30 * 60 * 1000

\* auth.js:13  MAX_FAILED_ATTEMPTS = 5
MAX_FAILED_ATTEMPTS == 5

\* auth.js:16  LOCKOUT_DURATION = 15 * 60 * 1000
LOCKOUT_DURATION == 15 * 60 * 1000

\* auth.js:80  the shortest password setupAdminPassword accepts
MIN_PASSWORD_LENGTH == 6

\* AsyncStorage.getItem of an empty slot, and a JavaScript null argument
Null == [null |-> TRUE]

\* ------------------------------------------------------ 32-bit arithmetic

W16 == 65536

\* (a * b) % 2^16 for 16-bit a and b, without leaving 31 bits
MulMod16(a, b) == ((((a \div 256) * b) % 256) * 256 + (a % 256) * b) % W16

\* (a * b) \div 2^16 for 16-bit a and b
MulDiv16(a, b) ==
    LET p1 == (a \div 256) * b
        p0 == (a % 256) * b
    IN  (p1 \div 256) + (((p1 % 256) * 256 + p0) \div W16)

\* Math.imul(w, k)
Imul(w, k) ==
    << (MulMod16(w[1], k[2]) + MulMod16(w[2], k[1]) + MulDiv16(w[2], k[2])) % W16,
       MulMod16(w[2], k[2]) >>

\* ((w << 5) - w + c) | 0, which is 31 * w + c in 32 bits
Mix31(w, c) ==
    LET lo == 31 * w[2] + c
    IN  << (31 * w[1] + (lo \div W16)) % W16, lo % W16 >>

RECURSIVE Xor16(_, _, _)
Xor16(a, b, bits) ==
    IF bits = 0 THEN 0
    ELSE ((a + b) % 2) + 2 * Xor16(a \div 2, b \div 2, bits - 1)

\* w ^ (w >>> 15)
XorShift15(w) ==
    LET shHi == w[1] \div 32768
        shLo == (w[1] % 32768) * 2 + (w[2] \div 32768)
    IN  << Xor16(w[1], shHi, 16), Xor16(w[2], shLo, 16) >>

\* Math.abs of the signed 32-bit value of w, as an unsigned pair
Abs32(w) ==
    IF w[1] < 32768 THEN w
    ELSE IF w[2] = 0 THEN << (W16 - w[1]) % W16, 0 >>
    ELSE << W16 - 1 - w[1], W16 - w[2] >>

\* the character code of one hexadecimal digit, lower case
HexDigit(d) == IF d < 10 THEN 48 + d ELSE 87 + d

RECURSIVE HexOf(_)
\* n.toString(16) for 0 <= n < 2^16
HexOf(n) == IF n < 16 THEN << HexDigit(n) >> ELSE Append(HexOf(n \div 16), HexDigit(n % 16))

Hex4(n) == << HexDigit(n \div 4096), HexDigit((n \div 256) % 16),
              HexDigit((n \div 16) % 16), HexDigit(n % 16) >>

\* Math.abs(w).toString(16)
AbsHex(w) ==
    LET a == Abs32(w)
    IN  IF a[1] = 0 THEN HexOf(a[2]) ELSE HexOf(a[1]) \o Hex4(a[2])

RECURSIVE DecOf(_)
\* i.toString() for a natural number i
DecOf(i) == IF i < 10 THEN << 48 + i >> ELSE Append(DecOf(i \div 10), 48 + (i % 10))

\* s.slice(0, n)
Slice(s, n) == IF Len(s) <= n THEN s ELSE SubSeq(s, 1, n)

Word == (0 .. W16 - 1) \X (0 .. W16 - 1)

\* one character of the loop of auth.js:25-30 (full) or of auth.js:36-38
FoldStep(w, c, full) ==
    IF full THEN XorShift15(Imul(Mix31(w, c), << 23505, 59797 >>)) ELSE Mix31(w, c)

\* the loop over the characters of s, from hash = 0
FoldChars(s, full) ==
    LET F[i \in 1 .. Len(s) + 1, w \in Word] ==
            IF i > Len(s) THEN w ELSE F[i + 1, FoldStep(w, s[i], full)]
    IN  F[1, << 0, 0 >>]

\* one pass of the strengthening loop, auth.js:34-39
IterStep(result, salt, i) ==
    AbsHex(FoldChars(result \o salt \o DecOf(i), FALSE)) \o Slice(result, 32)

\* the passes i = from .. from + n - 1 of the loop of auth.js:33-40
IterRange(result0, salt, from0, n0) ==
    LET R[result \in Seq(Nat), from \in Nat, n \in Nat] ==
            IF n = 0 THEN result
            ELSE IF n = 1 THEN IterStep(result, salt, from)
            ELSE R[R[result, from, n \div 2], from + (n \div 2), n - (n \div 2)]
    IN  R[result0, from0, n0]

\* auth.js:33  the number of strengthening passes
HASH_ITERATIONS == 1000

\* auth.js:22-42
hashPassword(password, salt) ==
    LET combined == salt \o password \o salt
        hash == FoldChars(combined, TRUE)
    IN  Slice(IterRange(AbsHex(hash), salt, 0, HASH_ITERATIONS), 64)

\* ------------------------------------------------------- inputs and bounds

\* the salts generateSalt can draw: 32 characters of its alphabet (auth.js:48)
SaltA == << 116, 101, 115, 116, 115, 97, 108, 116, 49, 50, 51, 52, 53, 54, 55, 56,
            57, 48, 49, 50, 51, 52, 53, 54, 55, 56, 57, 48, 116, 101, 115, 116 >>
SaltB == << 90, 107, 51, 81, 112, 82, 55, 120, 76, 109, 48, 86, 98, 78, 56, 115,
            87, 99, 50, 89, 100, 84, 53, 117, 72, 102, 57, 71, 106, 65, 49, 101 >>
Salts == { SaltA, SaltB }

\* the random parts of a session token: one representative, since no operation
\* of auth.js reads a token back; its timestamp part is exact
TokenSalts == { SaltA }

\* a JavaScript string value
Str(s) == [ str |-> s ]

\* the passwords a caller supplies: null, "12345", "secret1", "abcdef"
PwShort  == Str(<< 49, 50, 51, 52, 53 >>)
PwSecret == Str(<< 115, 101, 99, 114, 101, 116, 49 >>)
PwOther  == Str(<< 97, 98, 99, 100, 101, 102 >>)
PasswordInputs == << Null, PwShort, PwSecret, PwOther >>
PasswordArgs == DOMAIN PasswordInputs

\* the horizon of the clock, in lockout durations
MaxK == 3

\* the instants at which the clock is read: the multiples of the lockout
\* duration up to the horizon (a session lasts two of them)
Instants == { k * LOCKOUT_DURATION : k \in 0 .. MaxK }

\* salt + password + salt of auth.js:23 turns a null password into "null"
ToStr(password) == IF password = Null THEN << 110, 117, 108, 108 >> ELSE password.str

\* hashPassword over the inputs of the model, computed once
hashTable ==
    [ i \in PasswordArgs |-> [ s \in Salts |-> hashPassword(ToStr(PasswordInputs[i]), s) ] ]

ArgOf(password) == CHOOSE i \in PasswordArgs : PasswordInputs[i] = password

hashed(password, salt) == hashTable[ArgOf(password)][salt]

RECURSIVE Base36(_)
\* n.toString(36) for a natural number n
Base36(n) ==
    LET d(x) == IF x < 10 THEN 48 + x ELSE 87 + x
    IN  IF n < 36 THEN << d(n) >> ELSE Append(Base36(n \div 36), d(n % 36))

\* auth.js:59-61, r1 and r2 the two salts drawn
generateSessionToken(r1, t, r2) == r1 \o Base36(t) \o r2

\* -------------------------------------------------------------- storage

\* the AsyncStorage calls of auth.js, one name per call site, by the exported
\* function that can reach them (for changeAdminPassword the two calls of its
\* own: those of the verification it starts with are rejected in the steps of
\* verifyAdminPassword)
LockoutSites == { "getLockoutStatus.getItem", "getLockoutStatus.removeItem" }
VerifySites ==
    LockoutSites \cup
    { "verifyAdminPassword.getItem", "recordFailedAttempt.getItem",
      "recordFailedAttempt.setItem", "clearFailedAttempts.removeItem",
      "verifyAdminPassword.setItem" }
SessionSites == { "isSessionValid.getItem", "logout.removeItem" }
ExtendSites == { "extendSession.getItem", "extendSession.setItem" }
ChangeSites == { "changeAdminPassword.setItem", "logout.removeItem" }

\* the calls that reject during one operation: none, one of them, or all
FaultChoices(sites) == { {} } \cup { { s } : s \in sites } \cup { sites }

EmptyStorage ==
    [ ADMIN_CREDENTIALS |-> Null, AUTH_SESSION |-> Null, FAILED_ATTEMPTS |-> Null ]

\* what a call hands back: a returned value or a thrown error, the storage it
\* leaves, and the AsyncStorage calls it made
Return(v, st, calls) == [ thrown |-> FALSE, value |-> v, st |-> st, calls |-> calls ]
Throw(e, st, calls)  == [ thrown |-> TRUE, value |-> e, st |-> st, calls |-> calls ]

\* the rejection of an AsyncStorage call
StorageError == [ error |-> "StorageError" ]

Max(a, b) == IF a >= b THEN a ELSE b

\* Math.ceil(a / b) for a >= 0, b > 0
Ceil(a, b) == (a + b - 1) \div b

HasLockout(a) == "lockoutUntil" \in DOMAIN a

\* ------------------------------------------------------------ operations
\* Each operator is one function of auth.js: st is the storage it finds, t the
\* clock (Date.now()), F the AsyncStorage calls that reject during the call.

\* IsWeak, were seven characters asked for
IsWeakBelowSeven(password) ==
    IF password = Null THEN TRUE
    ELSE Len(password.str) = 0 \/ Len(password.str) < MIN_PASSWORD_LENGTH + 1

\* !password || password.length < 6   (auth.js:80, auth.js:296)
IsWeak(password) ==
    IF password = Null THEN TRUE
    ELSE Len(password.str) = 0 \/ Len(password.str) < MIN_PASSWORD_LENGTH

\* auth.js:66-74
isAdminSetup(st, F) ==
    IF "isAdminSetup.getItem" \in F THEN Return(FALSE, st, { "isAdminSetup.getItem" })
    ELSE Return(st.ADMIN_CREDENTIALS # Null, st, { "isAdminSetup.getItem" })

\* auth.js:79-105
setupAdminPassword(st, t, password, salt, F) ==
    IF IsWeak(password) THEN Throw([ error |-> "WeakPassword" ], st, {})
    ELSE IF "setupAdminPassword.setItem" \in F
    THEN Throw([ error |-> "SetupFailed" ], st, { "setupAdminPassword.setItem" })
    ELSE Return(TRUE,
                [ st EXCEPT !.ADMIN_CREDENTIALS =
                    [ hash |-> hashed(password, salt), salt |-> salt,
                      createdAt |-> t, updatedAt |-> t ] ],
                { "setupAdminPassword.setItem" })

NotLocked(attempts) == [ isLocked |-> FALSE, remainingTime |-> 0, attempts |-> attempts ]

\* LockoutInForce, were no lockout ever in force
LockoutNeverInForce(a, t) == FALSE

\* lockoutUntil && Date.now() < lockoutUntil   (auth.js:119)
LockoutInForce(a, t) == HasLockout(a) /\ t < a.lockoutUntil

\* LockoutExpired, were the lockout still on at the instant lockoutUntil
LockoutExpiredLate(a, t) == HasLockout(a) /\ t > a.lockoutUntil

\* lockoutUntil && Date.now() >= lockoutUntil   (auth.js:128)
LockoutExpired(a, t) == HasLockout(a) /\ t >= a.lockoutUntil

\* getLockoutStatusReads, were a read during a lockout counted as a failed attempt
getLockoutStatusCounting(st, t, t2, F) ==
    LET a == st.FAILED_ATTEMPTS
        get == { "getLockoutStatus.getItem" }
        remove == { "getLockoutStatus.getItem", "getLockoutStatus.removeItem" }
    IN  IF "getLockoutStatus.getItem" \in F THEN Return(NotLocked(0), st, get)
        ELSE IF a = Null THEN Return(NotLocked(0), st, get)
        ELSE IF LockoutInForce(a, t)
        THEN Return([ isLocked |-> TRUE, remainingTime |-> a.lockoutUntil - t2,
                      attempts |-> a.attempts ],
                    [ st EXCEPT !.FAILED_ATTEMPTS.attempts = a.attempts + 1 ],
                    get)
        ELSE IF LockoutExpired(a, t)
        THEN IF "getLockoutStatus.removeItem" \in F THEN Return(NotLocked(0), st, remove)
             ELSE Return(NotLocked(0), [ st EXCEPT !.FAILED_ATTEMPTS = Null ], remove)
        ELSE Return(NotLocked(a.attempts), st, get)

\* auth.js:110-138: Date.now() is read at t for the comparisons (auth.js:119,
\* auth.js:128) and again at t2 for the remaining time (auth.js:122)
getLockoutStatusReads(st, t, t2, F) ==
    LET a == st.FAILED_ATTEMPTS
        get == { "getLockoutStatus.getItem" }
        remove == { "getLockoutStatus.getItem", "getLockoutStatus.removeItem" }
    IN  IF "getLockoutStatus.getItem" \in F THEN Return(NotLocked(0), st, get)
        ELSE IF a = Null THEN Return(NotLocked(0), st, get)
        ELSE IF LockoutInForce(a, t)
        THEN Return([ isLocked |-> TRUE, remainingTime |-> a.lockoutUntil - t2,
                      attempts |-> a.attempts ], st, get)
        ELSE IF LockoutExpired(a, t)
        THEN IF "getLockoutStatus.removeItem" \in F THEN Return(NotLocked(0), st, remove)
             ELSE Return(NotLocked(0), [ st EXCEPT !.FAILED_ATTEMPTS = Null ], remove)
        ELSE Return(NotLocked(a.attempts), st, get)

\* getLockoutStatus with all its reads of Date.now() in one millisecond
getLockoutStatus(st, t, F) == getLockoutStatusReads(st, t, t, F)

\* ReachesLimit, were the limit one attempt further
ExceedsLimit(attempts) == attempts > MAX_FAILED_ATTEMPTS

\* attempts >= MAX_FAILED_ATTEMPTS   (auth.js:155, auth.js:163)
ReachesLimit(attempts) == attempts >= MAX_FAILED_ATTEMPTS

\* RemainingAttempts, were the present attempt not counted
RemainingBefore(attempts) == Max(0, MAX_FAILED_ATTEMPTS - attempts + 1)

\* Math.max(0, MAX_FAILED_ATTEMPTS - attempts)   (auth.js:164)
RemainingAttempts(attempts) == Max(0, MAX_FAILED_ATTEMPTS - attempts)

\* auth.js:143-170
recordFailedAttempt(st, t, F) ==
    LET a == st.FAILED_ATTEMPTS
        attempts == IF a = Null THEN 1 ELSE a.attempts + 1
        data == IF ReachesLimit(attempts)
                THEN [ attempts |-> attempts, lockoutUntil |-> t + LOCKOUT_DURATION ]
                ELSE [ attempts |-> attempts ]
        caught == [ attempts |-> 0, isLocked |-> FALSE,
                    remainingAttempts |-> MAX_FAILED_ATTEMPTS ]
        get == { "recordFailedAttempt.getItem" }
        set == { "recordFailedAttempt.getItem", "recordFailedAttempt.setItem" }
    IN  IF "recordFailedAttempt.getItem" \in F THEN Return(caught, st, get)
        ELSE IF "recordFailedAttempt.setItem" \in F THEN Return(caught, st, set)
        ELSE Return([ attempts |-> attempts,
                      isLocked |-> ReachesLimit(attempts),
                      remainingAttempts |-> RemainingAttempts(attempts) ],
                    [ st EXCEPT !.FAILED_ATTEMPTS = data ], set)

\* clearFailedAttempts, were the record kept
clearFailedAttemptsKept(st, F) == Return(Null, st, { "clearFailedAttempts.removeItem" })

\* auth.js:175-181
clearFailedAttempts(st, F) ==
    IF "clearFailedAttempts.removeItem" \in F
    THEN Return(Null, st, { "clearFailedAttempts.removeItem" })
    ELSE Return(Null, [ st EXCEPT !.FAILED_ATTEMPTS = Null ],
                { "clearFailedAttempts.removeItem" })

\* logout, were the session kept
logoutKept(st, F) == Return(TRUE, st, { "logout.removeItem" })

\* auth.js:282-290
logout(st, F) ==
    IF "logout.removeItem" \in F THEN Return(FALSE, st, { "logout.removeItem" })
    ELSE Return(TRUE, [ st EXCEPT !.AUTH_SESSION = Null ], { "logout.removeItem" })

\* newSession, were the session given no time to live
newSessionExpiring(t, r1, r2) ==
    [ token |-> generateSessionToken(r1, t, r2), createdAt |-> t, expiresAt |-> t ]

\* the session of auth.js:214-218
newSession(t, r1, r2) ==
    [ token |-> generateSessionToken(r1, t, r2), createdAt |-> t,
      expiresAt |-> t + SESSION_TIMEOUT ]

\* the try block of verifyAdminPassword, auth.js:187-222; t2 is the second
\* read of Date.now() in getLockoutStatus
verifyAdminPasswordTryReads(st, t, t2, password, r1, r2, F) ==
    LET lockoutStatus == getLockoutStatusReads(st, t, t2, F)
        st1 == lockoutStatus.st
        c1 == lockoutStatus.calls
        c2 == c1 \cup { "verifyAdminPassword.getItem" }
        credentials == st1.ADMIN_CREDENTIALS
        attemptResult == recordFailedAttempt(st1, t, F)
        cleared == clearFailedAttempts(st1, F)
        c3 == c2 \cup cleared.calls \cup { "verifyAdminPassword.setItem" }
        session == newSession(t, r1, r2)
    IN  IF lockoutStatus.value.isLocked
        THEN Throw([ error |-> "LockedOut",
                     minutes |-> Ceil(lockoutStatus.value.remainingTime, 60000) ], st1, c1)
        ELSE IF "verifyAdminPassword.getItem" \in F THEN Throw(StorageError, st1, c2)
        ELSE IF credentials = Null THEN Throw([ error |-> "NotSetUp" ], st1, c2)
        ELSE IF hashed(password, credentials.salt) # credentials.hash
        THEN IF attemptResult.value.isLocked
             THEN Throw([ error |-> "TooManyAttempts" ], attemptResult.st,
                        c2 \cup attemptResult.calls)
             ELSE Throw([ error |-> "InvalidPassword",
                          remainingAttempts |-> attemptResult.value.remainingAttempts ],
                        attemptResult.st, c2 \cup attemptResult.calls)
        ELSE IF "verifyAdminPassword.setItem" \in F THEN Throw(StorageError, cleared.st, c3)
        ELSE Return([ success |-> TRUE, token |-> session.token ],
                    [ cleared.st EXCEPT !.AUTH_SESSION = session ], c3)

\* error.message.includes(...) of auth.js:224-226: 'Invalid password',
\* 'Account locked' (also part of the too-many-attempts message), 'Admin not set up'
IsRethrown(e) == e.error \in { "InvalidPassword", "LockedOut", "TooManyAttempts", "NotSetUp" }

\* auth.js:186-232
verifyAdminPasswordReads(st, t, t2, password, r1, r2, F) ==
    LET r == verifyAdminPasswordTryReads(st, t, t2, password, r1, r2, F)
    IN  IF r.thrown /\ ~IsRethrown(r.value)
        THEN Throw([ error |-> "AuthenticationFailed" ], r.st, r.calls)
        ELSE r

\* verifyAdminPassword with all its reads of Date.now() in one millisecond
verifyAdminPassword(st, t, password, r1, r2, F) ==
    verifyAdminPasswordReads(st, t, t, password, r1, r2, F)

\* auth.js:237-256
isSessionValid(st, t, F) ==
    LET session == st.AUTH_SESSION
        out == logout(st, F)
        get == { "isSessionValid.getItem" }
    IN  IF "isSessionValid.getItem" \in F THEN Return(FALSE, st, get)
        ELSE IF session = Null THEN Return(FALSE, st, get)
        ELSE IF t > session.expiresAt THEN Return(FALSE, out.st, get \cup out.calls)
        ELSE Return(TRUE, st, get)

\* extendSession, were the time to live counted from the session's creation
extendSessionFromCreation(st, t, F) ==
    LET session == st.AUTH_SESSION
        get == { "extendSession.getItem" }
        set == { "extendSession.getItem", "extendSession.setItem" }
    IN  IF "extendSession.getItem" \in F THEN Return(FALSE, st, get)
        ELSE IF session = Null THEN Return(FALSE, st, get)
        ELSE IF "extendSession.setItem" \in F THEN Return(FALSE, st, set)
        ELSE Return(TRUE,
                    [ st EXCEPT !.AUTH_SESSION =
                        [ session EXCEPT !.expiresAt = session.createdAt + SESSION_TIMEOUT ] ],
                    set)

\* auth.js:261-277
extendSession(st, t, F) ==
    LET session == st.AUTH_SESSION
        get == { "extendSession.getItem" }
        set == { "extendSession.getItem", "extendSession.setItem" }
    IN  IF "extendSession.getItem" \in F THEN Return(FALSE, st, get)
        ELSE IF session = Null THEN Return(FALSE, st, get)
        ELSE IF "extendSession.setItem" \in F THEN Return(FALSE, st, set)
        ELSE Return(TRUE,
                    [ st EXCEPT !.AUTH_SESSION =
                        [ session EXCEPT !.expiresAt = t + SESSION_TIMEOUT ] ],
                    set)

\* changeAdminPassword, were the current password verified before the new
\* one is looked at
changeAdminPasswordVerifyFirst(st, t, currentPassword, newPassword, r1, r2, salt, F) ==
    LET v == verifyAdminPassword(st, t, currentPassword, r1, r2, F)
        credentials == [ hash |-> hashed(newPassword, salt), salt |-> salt,
                         createdAt |-> t, updatedAt |-> t ]
        c1 == v.calls \cup { "changeAdminPassword.setItem" }
        out == logout([ v.st EXCEPT !.ADMIN_CREDENTIALS = credentials ], F)
    IN  IF v.thrown THEN v
        ELSE IF IsWeak(newPassword) THEN Throw([ error |-> "WeakPassword" ], v.st, v.calls)
        ELSE IF "changeAdminPassword.setItem" \in F THEN Throw(StorageError, v.st, c1)
        ELSE Return(TRUE, out.st, c1 \cup out.calls)

\* auth.js:295-323: no try block, so what it awaits throws through it
changeAdminPassword(st, t, currentPassword, newPassword, r1, r2, salt, F) ==
    LET v == verifyAdminPassword(st, t, currentPassword, r1, r2, F)
        credentials == [ hash |-> hashed(newPassword, salt), salt |-> salt,
                         createdAt |-> t, updatedAt |-> t ]
        c1 == v.calls \cup { "changeAdminPassword.setItem" }
        out == logout([ v.st EXCEPT !.ADMIN_CREDENTIALS = credentials ], F)
    IN  IF IsWeak(newPassword) THEN Throw([ error |-> "WeakPassword" ], st, {})
        ELSE IF v.thrown THEN v
        ELSE IF "changeAdminPassword.setItem" \in F THEN Throw(StorageError, v.st, c1)
        ELSE Return(TRUE, out.st, c1 \cup out.calls)

\* resetAuthData, were the failed-attempt record kept
resetAuthDataButAttempts(st, F) ==
    IF "resetAuthData.multiRemove" \in F
    THEN Return(FALSE, st, { "resetAuthData.multiRemove" })
    ELSE Return(TRUE, [ EmptyStorage EXCEPT !.FAILED_ATTEMPTS = st.FAILED_ATTEMPTS ],
                { "resetAuthData.multiRemove" })

\* auth.js:328-340
resetAuthData(st, F) ==
    IF "resetAuthData.multiRemove" \in F
    THEN Return(FALSE, st, { "resetAuthData.multiRemove" })
    ELSE Return(TRUE, EmptyStorage, { "resetAuthData.multiRemove" })

\* --------------------------------------------------------------- catalog
\* barcodeDatabase.js.  The object barcodeData is a sequence of entries
\* [key, value] in the order Object.values gives them: its keys are never
\* array indices (they start with a letter), so that is the order in which
\* the keys were first written, and writing a key again keeps its place.

\* "STYLE", "MAT", "-" and the digits
STYLE == << 83, 84, 89, 76, 69 >>
MAT == << 77, 65, 84 >>
DASH == 45
IsDigit(c) == c \in 48 .. 57

\* the barcode of a prefix and three digits
Barcode(prefix, d1, d2, d3) == Str(prefix \o << DASH, 48 + d1, 48 + d2, 48 + d3 >>)

\* barcodeDatabase.js:3-84
barcodeDataSeed ==
    << [ key |-> Barcode(STYLE, 0, 0, 1),
         value |-> [ id |-> Barcode(STYLE, 0, 0, 1), type |-> "style",
                     name |-> "Modern Sectional Sofa",
                     description |-> "L-shaped contemporary sectional with clean lines",
                     imageUrl |-> "https://images.unsplash.com/photo-1555041469-a586c61ea9bc?w=800" ] ],
       [ key |-> Barcode(STYLE, 0, 0, 2),
         value |-> [ id |-> Barcode(STYLE, 0, 0, 2), type |-> "style",
                     name |-> "Classic Chesterfield Sofa",
                     description |-> "Traditional tufted sofa with rolled arms",
                     imageUrl |-> "https://images.unsplash.com/photo-1493663284031-b7e3aefcae8e?w=800" ] ],
       [ key |-> Barcode(STYLE, 0, 0, 3),
         value |-> [ id |-> Barcode(STYLE, 0, 0, 3), type |-> "style",
                     name |-> "Mid-Century Armchair",
                     description |-> "Retro-inspired chair with wooden legs",
                     imageUrl |-> "https://images.unsplash.com/photo-1506439773649-6e0eb8cfb237?w=800" ] ],
       [ key |-> Barcode(STYLE, 0, 0, 4),
         value |-> [ id |-> Barcode(STYLE, 0, 0, 4), type |-> "style",
                     name |-> "Scandinavian Loveseat",
                     description |-> "Minimalist two-seater with tapered legs",
                     imageUrl |-> "https://images.unsplash.com/photo-1550254478-ead40cc54513?w=800" ] ],
       [ key |-> Barcode(STYLE, 0, 0, 5),
         value |-> [ id |-> Barcode(STYLE, 0, 0, 5), type |-> "style",
                     name |-> "Leather Recliner",
                     description |-> "Comfortable power recliner with headrest",
                     imageUrl |-> "https://images.unsplash.com/photo-1567538096630-e0c55bd6374c?w=800" ] ],
       [ key |-> Barcode(MAT, 0, 0, 1),
         value |-> [ id |-> Barcode(MAT, 0, 0, 1), type |-> "material",
                     name |-> "Grey Linen Fabric",
                     description |-> "Natural linen in neutral grey tone",
                     imageUrl |-> "https://images.unsplash.com/photo-1558618666-fcd25c85cd64?w=800" ] ],
       [ key |-> Barcode(MAT, 0, 0, 2),
         value |-> [ id |-> Barcode(MAT, 0, 0, 2), type |-> "material",
                     name |-> "Navy Blue Velvet",
                     description |-> "Rich velvet in deep navy color",
                     imageUrl |-> "https://images.unsplash.com/photo-1558171813-4c088753af8f?w=800" ] ],
       [ key |-> Barcode(MAT, 0, 0, 3),
         value |-> [ id |-> Barcode(MAT, 0, 0, 3), type |-> "material",
                     name |-> "Cognac Leather",
                     description |-> "Premium full-grain leather in warm cognac",
                     imageUrl |-> "https://images.unsplash.com/photo-1531685250784-7569952593d2?w=800" ] ],
       [ key |-> Barcode(MAT, 0, 0, 4),
         value |-> [ id |-> Barcode(MAT, 0, 0, 4), type |-> "material",
                     name |-> "Emerald Green Velvet",
                     description |-> "Luxurious velvet in jewel-tone green",
                     imageUrl |-> "https://images.unsplash.com/photo-1507003211169-0a1dd7228f2d?w=800" ] ],
       [ key |-> Barcode(MAT, 0, 0, 5),
         value |-> [ id |-> Barcode(MAT, 0, 0, 5), type |-> "material",
                     name |-> "Cream Boucle",
                     description |-> "Textured boucle fabric in soft cream",
                     imageUrl |-> "https://images.unsplash.com/photo-1558618047-3c8c76ca7d13?w=800" ] ],
       [ key |-> Barcode(MAT, 0, 0, 6),
         value |-> [ id |-> Barcode(MAT, 0, 0, 6), type |-> "material",
                     name |-> "Charcoal Tweed",
                     description |-> "Classic wool tweed in charcoal grey",
                     imageUrl |-> "https://images.unsplash.com/photo-1558171014-33c9310d7bc9?w=800" ] ] >>

\* typeof barcode === 'string'
IsString(barcode) == "str" \in DOMAIN barcode

\* !barcode: null, undefined, the empty string, the number 0
IsFalsy(barcode) ==
    \/ barcode = Null
    \/ IsString(barcode) /\ Len(barcode.str) = 0
    \/ "num" \in DOMAIN barcode /\ barcode.num = 0

\* \d{n,}$ from position from: digits only up to the end, at least n of them
DigitsToEnd(s, from, n) ==
    /\ Len(s) - from + 1 >= n
    /\ \A i \in from .. Len(s) : IsDigit(s[i])

\* ^(STYLE|MAT)- : the position after the dash, 0 without such a start
AfterPrefix(s) ==
    IF Len(s) > Len(STYLE) /\ SubSeq(s, 1, Len(STYLE)) = STYLE /\ s[Len(STYLE) + 1] = DASH
    THEN Len(STYLE) + 2
    ELSE IF Len(s) > Len(MAT) /\ SubSeq(s, 1, Len(MAT)) = MAT /\ s[Len(MAT) + 1] = DASH
    THEN Len(MAT) + 2
    ELSE 0

\* MatchesPattern, were two digits enough
MatchesPatternTwoDigits(s) == AfterPrefix(s) > 0 /\ DigitsToEnd(s, AfterPrefix(s), 2)

\* /^(STYLE|MAT)-\d{3,}$/.test(s)   (barcodeDatabase.js:99)
MatchesPattern(s) == AfterPrefix(s) > 0 /\ DigitsToEnd(s, AfterPrefix(s), 3)

\* barcodeDatabase.js:93-100
isValidBarcode(barcode) ==
    IF IsFalsy(barcode) \/ ~IsString(barcode) THEN FALSE
    ELSE MatchesPattern(barcode.str)

\* the places of key among the entries: none or one
PlacesOf(data, key) == { i \in 1 .. Len(data) : data[i].key = key }

\* barcodeDatabase.js:108-114
getBarcodeData(data, barcode) ==
    IF ~isValidBarcode(barcode) THEN Null
    ELSE IF PlacesOf(data, barcode) = {} THEN Null
    ELSE data[CHOOSE i \in PlacesOf(data, barcode) : TRUE].value

\* { id: barcode, ...fields }: the fields given win over id; null and
\* undefined spread to nothing   (barcodeDatabase.js:130-133)
Spread(barcode, fields) ==
    IF fields = Null THEN [ id |-> barcode ]
    ELSE [ k \in { "id" } \cup DOMAIN fields |->
             IF k \in DOMAIN fields THEN fields[k] ELSE barcode ]

\* Assign, were the catalog kept at its size: a new key drives out the oldest
AssignEvicting(data, barcode, value) ==
    IF \E i \in DOMAIN data : data[i].key = barcode
    THEN [ i \in 1 .. Len(data) |->
             IF data[i].key = barcode THEN [ key |-> barcode, value |-> value ]
             ELSE data[i] ]
    ELSE Append(Tail(data), [ key |-> barcode, value |-> value ])

\* Assign, were a key written again moved to the end
AssignLast(data, barcode, value) ==
    Append(SelectSeq(data, LAMBDA e : e.key # barcode),
           [ key |-> barcode, value |-> value ])

\* barcodeData[barcode] = value: a new key goes last, a known one keeps its place
Assign(data, barcode, value) ==
    IF PlacesOf(data, barcode) = {}
    THEN Append(data, [ key |-> barcode, value |-> value ])
    ELSE [ i \in 1 .. Len(data) |->
             IF data[i].key = barcode THEN [ key |-> barcode, value |-> value ]
             ELSE data[i] ]

\* addBarcode, were the fields given merged into the record stored
addBarcodeMerging(data, barcode, fields) ==
    IF ~isValidBarcode(barcode)
    THEN [ thrown |-> TRUE, error |-> "InvalidFormat", data |-> data ]
    ELSE [ thrown |-> FALSE, error |-> "",
           data |-> Assign(data, barcode,
                           IF getBarcodeData(data, barcode) = Null
                           THEN Spread(barcode, fields)
                           ELSE [ k \in DOMAIN getBarcodeData(data, barcode)
                                        \cup DOMAIN Spread(barcode, fields) |->
                                    IF k \in DOMAIN Spread(barcode, fields)
                                    THEN Spread(barcode, fields)[k]
                                    ELSE getBarcodeData(data, barcode)[k] ]) ]

\* barcodeDatabase.js:125-136: returns true unless it throws
addBarcode(data, barcode, fields) ==
    IF ~isValidBarcode(barcode)
    THEN [ thrown |-> TRUE, error |-> "InvalidFormat", data |-> data ]
    ELSE [ thrown |-> FALSE, error |-> "",
           data |-> Assign(data, barcode, Spread(barcode, fields)) ]

\* Object.values(barcodeData)
Values(data) == [ i \in 1 .. Len(data) |-> data[i].value ]

\* item.type === type
HasType(item, type) == "type" \in DOMAIN item /\ item.type = type

\* getBarcodesByType, were the type read off the prefix of the id
getBarcodesByPrefix(data, type) ==
    SelectSeq(Values(data),
              LAMBDA item : type = (IF SubSeq(item.id.str, 1, 3) = MAT
                                    THEN "material" ELSE "style"))

\* barcodeDatabase.js:144-146
getBarcodesByType(data, type) ==
    SelectSeq(Values(data), LAMBDA item : HasType(item, type))

\* ---------------------------------------------------------------- state

VARIABLES
    now,            \* Date.now(), in milliseconds
    storage,        \* the three AsyncStorage slots of STORAGE_KEYS (auth.js:3-7)
    last,           \* the call that has just returned, and its outcome
    adminPassword,  \* history: the password the stored credential was made from
    wrongRun,       \* history: wrong passwords compared since the last success,
                    \*          lockout expiry or reset
    lockEnd,        \* history: when the lockout of the fifth wrong password ends
    barcodeData,    \* the catalog: the entries of barcodeData (barcodeDatabase.js:3)
    reply,          \* the catalog, history or selection call that has just
                    \* returned, and its outcome
    scanHistory,    \* the AsyncStorage slot SCAN_HISTORY (storage.js:6)
    scans,          \* history: the calls of addToScanHistory made so far
    furniture,      \* the three states of useFurnitureState
    tasks           \* the calls of auth.js in flight, each at one of its awaits

vars == << now, storage, last, adminPassword, wrongRun, lockEnd, barcodeData, reply,
           scanHistory, scans, furniture, tasks >>

\* what the calls of auth.js and of the catalog leave alone
shellVars == << scanHistory, scans, furniture, tasks >>

\* no catalog call has just returned
NoReply == [ op |-> "none" ]

\* the Application Shell is between two calls: there is no value to take
NoCall == [ op |-> "none", right |-> FALSE, weak |-> FALSE, before |-> 0,
            rejected |-> {}, thrown |-> FALSE ]

Idle == last.op = "none"

Init ==
    /\ now = 0
    /\ storage = EmptyStorage
    /\ last = NoCall
    /\ adminPassword = Null
    /\ wrongRun = 0
    /\ lockEnd = 0
    /\ barcodeData = barcodeDataSeed
    /\ reply = NoReply
    /\ scanHistory = Null
    /\ scans = 0
    /\ furniture = [ selectedStyle |-> Null, selectedMaterial |-> Null,
                     generatedImage |-> Null ]
    /\ tasks = << >>

\* the Application Shell awaits each call before the next (App.js:37-69): the
\* call op, made between two calls, returns r; right tells whether the password
\* it was given to verify is the one the credential was made from; weak tells
\* whether the password it was given to store is absent or too short; before is
\* wrongRun as the call found it; rejected are the AsyncStorage calls that were
\* made and rejected
Finish(op, right, weak, F, r) ==
    /\ Idle
    /\ storage' = r.st
    /\ last' = [ op |-> op, right |-> right, weak |-> weak, before |-> wrongRun,
                 rejected |-> r.calls \cap F, thrown |-> r.thrown, value |-> r.value ]
    /\ now' = now
    /\ UNCHANGED << barcodeData, reply, shellVars >>

IsRight(password) == adminPassword # Null /\ password = adminPassword

\* the password is absent or has fewer than six characters
TooShort(password) == password = Null \/ Len(password.str) < 6

\* the history of a verification of password at the present instant: it is
\* refused while the lockout of the fifth wrong password lasts, else compared
CountVerify(password) ==
    LET expired == wrongRun >= MAX_FAILED_ATTEMPTS /\ now >= lockEnd
        locked == wrongRun >= MAX_FAILED_ATTEMPTS /\ now < lockEnd
        base == IF expired THEN 0 ELSE wrongRun
    IN  IF adminPassword = Null \/ locked
        THEN UNCHANGED << wrongRun, lockEnd >>
        ELSE IF password = adminPassword
        THEN wrongRun' = 0 /\ lockEnd' = 0
        ELSE /\ wrongRun' = base + 1
             /\ lockEnd' = IF base + 1 >= MAX_FAILED_ATTEMPTS
                           THEN now + LOCKOUT_DURATION ELSE 0

\* time passes; nothing runs in the background (no timer in auth.js)
Tick ==
    /\ Idle
    /\ \E t \in Instants : t > now /\ now' = t
    /\ UNCHANGED << storage, last, adminPassword, wrongRun, lockEnd, barcodeData, reply, shellVars >>

\* the Application Shell has taken the outcome of the call it awaited; a
\* behaviour is followed up to the first call in which AsyncStorage rejects
Resume ==
    /\ ~Idle
    /\ last.rejected = {}
    /\ last' = NoCall
    /\ UNCHANGED << now, storage, adminPassword, wrongRun, lockEnd, barcodeData, reply, shellVars >>

IsAdminSetup(F) ==
    \E r \in { isAdminSetup(storage, F) } :
        /\ Finish("isAdminSetup", FALSE, FALSE, F, r)
        /\ UNCHANGED << adminPassword, wrongRun, lockEnd >>

\* the salts a call draws: generateSalt runs only where the call gets that far
Drawn(reached) == IF reached THEN Salts ELSE { SaltA }

SetupAdminPassword(F) ==
    \E i \in PasswordArgs :
    \E salt \in Drawn(~IsWeak(PasswordInputs[i])) :
    \E r \in { setupAdminPassword(storage, now, PasswordInputs[i], salt, F) } :
        /\ Finish("setupAdminPassword", FALSE, TooShort(PasswordInputs[i]), F, r)
        /\ adminPassword' = IF r.thrown THEN adminPassword ELSE PasswordInputs[i]
        /\ UNCHANGED << wrongRun, lockEnd >>

GetLockoutStatus(F) ==
    \E r \in { getLockoutStatus(storage, now, F) } :
        /\ Finish("getLockoutStatus", FALSE, FALSE, F, r)
        /\ UNCHANGED << adminPassword, wrongRun, lockEnd >>

VerifyAdminPassword(F) ==
    \E i \in PasswordArgs, r1 \in TokenSalts, r2 \in TokenSalts :
    \E r \in { verifyAdminPassword(storage, now, PasswordInputs[i], r1, r2, F) } :
        /\ Finish("verifyAdminPassword", IsRight(PasswordInputs[i]), FALSE, F, r)
        /\ CountVerify(PasswordInputs[i])
        /\ UNCHANGED adminPassword

IsSessionValid(F) ==
    \E r \in { isSessionValid(storage, now, F) } :
        /\ Finish("isSessionValid", FALSE, FALSE, F, r)
        /\ UNCHANGED << adminPassword, wrongRun, lockEnd >>

ExtendSession(F) ==
    \E r \in { extendSession(storage, now, F) } :
        /\ Finish("extendSession", FALSE, FALSE, F, r)
        /\ UNCHANGED << adminPassword, wrongRun, lockEnd >>

Logout(F) ==
    \E r \in { logout(storage, F) } :
        /\ Finish("logout", FALSE, FALSE, F, r)
        /\ UNCHANGED << adminPassword, wrongRun, lockEnd >>

ChangeAdminPassword(F) ==
    \E i \in PasswordArgs, j \in PasswordArgs, r1 \in TokenSalts, r2 \in TokenSalts :
    \E salt \in Drawn(/\ ~IsWeak(PasswordInputs[j])
                      /\ ~verifyAdminPassword(storage, now, PasswordInputs[i], r1, r2, F).thrown) :
    \E r \in { changeAdminPassword(storage, now, PasswordInputs[i], PasswordInputs[j],
                                   r1, r2, salt, F) } :
        /\ Finish("changeAdminPassword", IsRight(PasswordInputs[i]),
                  TooShort(PasswordInputs[j]), F, r)
        /\ adminPassword' = IF r.thrown THEN adminPassword ELSE PasswordInputs[j]
        /\ IF IsWeak(PasswordInputs[j])
           THEN UNCHANGED << wrongRun, lockEnd >>
           ELSE CountVerify(PasswordInputs[i])

ResetAuthData(F) ==
    \E r \in { resetAuthData(storage, F) } :
        /\ Finish("resetAuthData", FALSE, FALSE, F, r)
        /\ IF r.value
           THEN adminPassword' = Null /\ wrongRun' = 0 /\ lockEnd' = 0
           ELSE UNCHANGED << adminPassword, wrongRun, lockEnd >>

\* one call of the Application Shell, with the storage calls in F rejecting
Call(F) ==
    \/ IsAdminSetup(F)
    \/ SetupAdminPassword(F)
    \/ GetLockoutStatus(F)
    \/ VerifyAdminPassword(F)
    \/ IsSessionValid(F)
    \/ ExtendSession(F)
    \/ Logout(F)
    \/ ChangeAdminPassword(F)
    \/ ResetAuthData(F)

\* the Auth Gate over a storage that never fails
Next == Tick \/ Resume \/ Call({})

Spec == Init /\ [][Next]_vars

\* the Auth Gate over a storage whose calls may reject
NextFaulty ==
    \/ Tick
    \/ Resume
    \/ \E F \in FaultChoices({ "isAdminSetup.getItem" }) : IsAdminSetup(F)
    \/ \E F \in FaultChoices({ "setupAdminPassword.setItem" }) : SetupAdminPassword(F)
    \/ \E F \in FaultChoices(LockoutSites) : GetLockoutStatus(F)
    \/ \E F \in FaultChoices(VerifySites) : VerifyAdminPassword(F)
    \/ \E F \in FaultChoices(SessionSites) : IsSessionValid(F)
    \/ \E F \in FaultChoices(ExtendSites) : ExtendSession(F)
    \/ \E F \in FaultChoices({ "logout.removeItem" }) : Logout(F)
    \/ \E F \in FaultChoices(ChangeSites) : ChangeAdminPassword(F)
    \/ \E F \in FaultChoices({ "resetAuthData.multiRemove" }) : ResetAuthData(F)

SpecFaulty == Init /\ [][NextFaulty]_vars

\* --------------------------------------------------- the clock by the minute

\* remainingTime / 60000   (auth.js:191)
MINUTE == 60000

\* the instants at which the clock is read where the minutes of a lockout
\* matter: around its start, a minute into it, a minute before its end, and
\* around its end
ClockReads ==
    { 0, 1, MINUTE, LOCKOUT_DURATION - MINUTE, LOCKOUT_DURATION - 1,
      LOCKOUT_DURATION, LOCKOUT_DURATION + 1 }

\* time passes between two calls
TickMinutes ==
    /\ Idle
    /\ \E t \in ClockReads : t > now /\ now' = t
    /\ UNCHANGED << storage, last, adminPassword, wrongRun, lockEnd, barcodeData, reply, shellVars >>

\* verifyAdminPassword, the clock being read at now (auth.js:119) and, in the
\* same millisecond or the next, again (auth.js:122)
VerifyAcrossReads ==
    \E i \in PasswordArgs, r1 \in TokenSalts, r2 \in TokenSalts :
    \E t2 \in { t \in ClockReads : t >= now /\ t - now <= 1 } :
    \E r \in { verifyAdminPasswordReads(storage, now, t2, PasswordInputs[i], r1, r2, {}) } :
        /\ Idle
        /\ storage' = r.st
        /\ last' = [ op |-> "verifyAdminPassword", right |-> IsRight(PasswordInputs[i]),
                     weak |-> FALSE, before |-> wrongRun, rejected |-> {},
                     thrown |-> r.thrown, value |-> r.value ]
        /\ now' = t2
        /\ CountVerify(PasswordInputs[i])
        /\ UNCHANGED << adminPassword, barcodeData, reply, shellVars >>

NextMinutes ==
    \/ TickMinutes
    \/ Resume
    \/ SetupAdminPassword({})
    \/ VerifyAcrossReads

\* setup and verification over a storage that never fails, the clock read
\* around the ends of a lockout
SpecMinutes == Init /\ [][NextMinutes]_vars

\* ---------------------------------------------------------- catalog calls

\* the barcode arguments: null or undefined, a number, the empty string,
\* strings that do not match the pattern, and three that do: a key of the
\* seed, STYLE-0600 and MAT-700
BarcodeInputs ==
    <<
       Null,
       [ num |-> 1001 ],
       Str(<< >>),
       Str(<< 73, 78, 86, 65, 76, 73, 68 >>),    \* 'INVALID': no prefix
       Str(<< 83, 84, 89, 76, 69, 48, 48, 49 >>),    \* 'STYLE001': no dash
       Str(<< 115, 116, 121, 108, 101, 45, 48, 48, 49 >>),    \* 'style-001': lower-case prefix
       Str(<< 83, 84, 89, 76, 69, 45, 48, 49 >>),    \* 'STYLE-01': two digits
       Str(<< 77, 65, 84, 45, 65, 66, 49 >>),    \* 'MAT-AB1': a letter among the digits
       Str(<< 32, 83, 84, 89, 76, 69, 45, 48, 48, 49 >>),    \* ' STYLE-001': a space before
       Str(<< 83, 84, 89, 76, 69, 45, 48, 48, 49, 32 >>),    \* 'STYLE-001 ': a space after
       Str(<< 83, 84, 89, 76, 69, 45, 48, 48, 49, 10 >>),    \* 'STYLE-001\n': a line feed after
       Str(<< 83, 84, 89, 76, 69, 45, 45, 48, 48, 49 >>),    \* 'STYLE--001': two dashes
       Barcode(STYLE, 0, 0, 1),
       Str(<< 83, 84, 89, 76, 69, 45, 48, 54, 48, 48 >>),    \* 'STYLE-0600'
       Barcode(MAT, 7, 0, 0) >>

BarcodeArgs == DOMAIN BarcodeInputs

\* the data arguments of addBarcode: none, and fields without imageUrl,
\* without type, with an id of their own
FieldInputs ==
    << Null,
       [ type |-> "style", name |-> "Original", imageUrl |-> "original.jpg" ],
       [ type |-> "material", name |-> "Updated" ],
       [ id |-> Barcode(MAT, 0, 0, 1), type |-> "fabric" ] >>

FieldArgs == DOMAIN FieldInputs

\* the type arguments of getBarcodesByType
TypeInputs == { "style", "material", "fabric", "unknown" }

\* the caller is between two catalog calls
Ready == reply.op = "none"

\* what the calls of the Auth Gate leave alone
authVars == << now, storage, last, adminPassword, wrongRun, lockEnd >>

IsValidBarcode ==
    \E i \in BarcodeArgs :
        /\ Ready
        /\ reply' = [ op |-> "isValidBarcode", arg |-> i,
                      valid |-> isValidBarcode(BarcodeInputs[i]) ]
        /\ UNCHANGED << authVars, barcodeData, shellVars >>

GetBarcodeData ==
    \E i \in BarcodeArgs :
        /\ Ready
        /\ reply' = [ op |-> "getBarcodeData", arg |-> i,
                      found |-> getBarcodeData(barcodeData, BarcodeInputs[i]) ]
        /\ UNCHANGED << authVars, barcodeData, shellVars >>

AddBarcode ==
    \E i \in BarcodeArgs, j \in FieldArgs :
    \E r \in { addBarcode(barcodeData, BarcodeInputs[i], FieldInputs[j]) } :
        /\ Ready
        /\ barcodeData' = r.data
        /\ reply' = [ op |-> "addBarcode", arg |-> i, fields |-> j,
                      thrown |-> r.thrown, error |-> r.error ]
        /\ UNCHANGED << authVars, shellVars >>

GetBarcodesByType ==
    \E type \in TypeInputs :
        /\ Ready
        /\ reply' = [ op |-> "getBarcodesByType", type |-> type,
                      list |-> getBarcodesByType(barcodeData, type) ]
        /\ UNCHANGED << authVars, barcodeData, shellVars >>

\* the caller has taken the outcome of the catalog call
Proceed ==
    /\ ~Ready
    /\ reply' = NoReply
    /\ UNCHANGED << authVars, barcodeData, shellVars >>

NextCatalog ==
    \/ IsValidBarcode
    \/ GetBarcodeData
    \/ AddBarcode
    \/ GetBarcodesByType
    \/ Proceed

\* the catalog, from its seed
SpecCatalog == Init /\ [][NextCatalog]_vars

\* ------------------------------------------------------------ scan history

\* history.slice(0, 50)   (storage.js:101)
HISTORY_LIMIT == 50

\* the scans followed from the start of a behaviour
MaxScans == 3

\* the scanData arguments of addToScanHistory; the second has a timestamp of
\* its own
ScanInputs ==
    << [ styleName |-> "Modern Sofa", materialName |-> "Grey Linen" ],
       [ styleName |-> "New Scan", timestamp |-> 123 ] >>

ScanArgs == DOMAIN ScanInputs

\* Math.random().toString(36).substr(2, 9), as a number
RandomInputs == { 1, 2 }

\* the AsyncStorage calls of storage.js that may reject
HistoryFaults == { {}, { "getItem" }, { "setItem" }, { "removeItem" } }

\* { ...scanData, timestamp: Date.now(), id: `scan_${Date.now()}_${random}` }:
\* timestamp and id win over the fields of scanData   (storage.js:93-97)
NewEntry(scanData, t, random) ==
    [ k \in DOMAIN scanData \cup { "timestamp", "id" } |->
        IF k = "timestamp" THEN t
        ELSE IF k = "id" THEN << t, random >>
        ELSE scanData[k] ]

\* a history of n scans made earlier at instant 0, the newest first
EarlierHistory(n) ==
    [ json |-> [ i \in 1 .. n |-> NewEntry(ScanInputs[1], 0, 10 + n - i) ] ]

\* storage.js:114-122: the array stored, [] where none is or the read rejects
getScanHistory(stored, F) ==
    IF "getItem" \in F THEN << >>
    ELSE IF stored = Null THEN << >>
    ELSE stored.json

\* history.unshift(newEntry)
Unshift(history, newEntry) == << newEntry >> \o history

\* storage.js:90-107
addToScanHistory(stored, scanData, t, random, F) ==
    IF "setItem" \in F
    THEN [ value |-> FALSE, stored |-> stored ]
    ELSE [ value |-> TRUE,
           stored |-> [ json |-> Slice(Unshift(getScanHistory(stored, F),
                                               NewEntry(scanData, t, random)),
                                       HISTORY_LIMIT) ] ]

\* storage.js:129-137
clearScanHistory(stored, F) ==
    IF "removeItem" \in F
    THEN [ value |-> FALSE, stored |-> stored ]
    ELSE [ value |-> TRUE, stored |-> Null ]

AddToScanHistory ==
    \E s \in ScanArgs, random \in RandomInputs, F \in HistoryFaults :
    \E r \in { addToScanHistory(scanHistory, ScanInputs[s], now, random, F) } :
        /\ Ready
        /\ scans < MaxScans
        /\ scanHistory' = r.stored
        /\ scans' = scans + 1
        /\ reply' = [ op |-> "addToScanHistory", scan |-> s, random |-> random,
                      rejected |-> F, value |-> r.value ]
        /\ UNCHANGED << authVars, barcodeData, furniture, tasks >>

GetScanHistory ==
    \E F \in HistoryFaults :
        /\ Ready
        /\ reply' = [ op |-> "getScanHistory", rejected |-> F,
                      history |-> getScanHistory(scanHistory, F) ]
        /\ UNCHANGED << authVars, barcodeData, shellVars >>

ClearScanHistory ==
    \E F \in HistoryFaults :
    \E r \in { clearScanHistory(scanHistory, F) } :
        /\ Ready
        /\ scanHistory' = r.stored
        /\ reply' = [ op |-> "clearScanHistory", rejected |-> F, value |-> r.value ]
        /\ UNCHANGED << authVars, barcodeData, scans, furniture, tasks >>

\* nothing stored yet, or 49 or 50 scans made earlier
InitHistory ==
    /\ now = 0
    /\ storage = EmptyStorage
    /\ last = NoCall
    /\ adminPassword = Null
    /\ wrongRun = 0
    /\ lockEnd = 0
    /\ barcodeData = barcodeDataSeed
    /\ reply = NoReply
    /\ \/ scanHistory = Null
       \/ \E n \in { HISTORY_LIMIT - 1, HISTORY_LIMIT } : scanHistory = EarlierHistory(n)
    /\ scans = 0
    /\ furniture = [ selectedStyle |-> Null, selectedMaterial |-> Null,
                     generatedImage |-> Null ]
    /\ tasks = << >>

NextHistory ==
    \/ AddToScanHistory
    \/ GetScanHistory
    \/ ClearScanHistory
    \/ Proceed

\* the scan history, over an AsyncStorage whose calls may reject
SpecHistory == InitHistory /\ [][NextHistory]_vars

\* ------------------------------------------------------- furniture selection

\* the style arguments of setSelectedStyle: null, and two styles of the seed
StyleInputs == << Null, barcodeDataSeed[1].value, barcodeDataSeed[2].value >>

\* the material arguments of setSelectedMaterial: null, and three materials of
\* the seed
MaterialInputs ==
    << Null, barcodeDataSeed[6].value, barcodeDataSeed[7].value,
       barcodeDataSeed[8].value >>

\* the arguments of setGeneratedImage: null, and two results
ImageInputs == << Null, [ url |-> "generated-image-url" ], [ url |-> "other-image-url" ] >>

\* setSelectedStyle, were the generated image kept
setSelectedStyleKeepingImage(state, style) ==
    [ state EXCEPT !.selectedStyle = style ]

\* useFurnitureState.js: setSelectedStyle   (part_001:268-272)
setSelectedStyle(state, style) ==
    [ state EXCEPT !.selectedStyle = style, !.generatedImage = Null ]

\* useFurnitureState.js: setSelectedMaterial   (part_001:274-276)
setSelectedMaterial(state, material) ==
    [ state EXCEPT !.selectedMaterial = material ]

\* useFurnitureState.js: setGeneratedImage, the setter of useState   (part_001:266)
setGeneratedImage(state, image) ==
    [ state EXCEPT !.generatedImage = image ]

SetSelectedStyle ==
    \E i \in DOMAIN StyleInputs :
        /\ Ready
        /\ furniture' = setSelectedStyle(furniture, StyleInputs[i])
        /\ reply' = [ op |-> "setSelectedStyle", arg |-> i ]
        /\ UNCHANGED << authVars, barcodeData, scanHistory, scans, tasks >>

SetSelectedMaterial ==
    \E i \in DOMAIN MaterialInputs :
        /\ Ready
        /\ furniture' = setSelectedMaterial(furniture, MaterialInputs[i])
        /\ reply' = [ op |-> "setSelectedMaterial", arg |-> i ]
        /\ UNCHANGED << authVars, barcodeData, scanHistory, scans, tasks >>

SetGeneratedImage ==
    \E i \in DOMAIN ImageInputs :
        /\ Ready
        /\ furniture' = setGeneratedImage(furniture, ImageInputs[i])
        /\ reply' = [ op |-> "setGeneratedImage", arg |-> i ]
        /\ UNCHANGED << authVars, barcodeData, scanHistory, scans, tasks >>

NextFurniture ==
    \/ SetSelectedStyle
    \/ SetSelectedMaterial
    \/ SetGeneratedImage
    \/ Proceed

\* the selection state, from its three nulls
SpecFurniture == Init /\ [][NextFurniture]_vars

\* ------------------------------------------------------- overlapping calls
\* Nothing makes a caller await one call of auth.js before it makes the next:
\* the interval timer of App.js:33 runs checkSession while handleLogout or a
\* login is under way.  A call runs up to its next await of AsyncStorage, the
\* awaited operation is done on the storage, and the call goes on from there;
\* between two awaits other calls may take their steps.

\* the calls under way at once
MaxInFlight == 2

\* the wrong passwords compared in one behaviour
MaxWrong == 7

\* a call under way: the function called, the AsyncStorage operation it awaits,
\* the password it was given (0 where it takes none), and what it holds to
\* write once the await is over
Task(op, pc, password, held) ==
    [ op |-> op, pc |-> pc, password |-> password, held |-> held ]

\* the calls that may be made: verifyAdminPassword("12345"),
\* verifyAdminPassword("secret1"), extendSession(), logout()
CallInputs ==
    << Task("verifyAdminPassword", "getLockoutStatus.getItem", 2, Null),
       Task("verifyAdminPassword", "getLockoutStatus.getItem", 3, Null),
       Task("extendSession", "extendSession.getItem", 0, Null),
       Task("logout", "logout.removeItem", 0, Null) >>

\* the call has returned or thrown outcome
Settled(task, st, outcome) ==
    [ pc |-> "done", held |-> Null, st |-> st, outcome |-> outcome, compared |-> FALSE ]

\* the call goes on to await the operation pc
Awaiting(task, st, pc, held, compared) ==
    [ pc |-> pc, held |-> held, st |-> st, outcome |-> "", compared |-> compared ]

\* the awaited operation of task is done on the storage st at instant t, and
\* task runs on to its next await or to its end
Await(task, st, t) ==
    LET a == st.FAILED_ATTEMPTS
        credentials == st.ADMIN_CREDENTIALS
        session == st.AUTH_SESSION
        attempts == IF a = Null THEN 1 ELSE a.attempts + 1
    IN  CASE task.pc = "getLockoutStatus.getItem" ->
               \* auth.js:112-133, 189-193
               IF a = Null THEN Awaiting(task, st, "verifyAdminPassword.getItem", Null, FALSE)
               ELSE IF LockoutInForce(a, t) THEN Settled(task, st, "LockedOut")
               ELSE IF LockoutExpired(a, t)
               THEN Awaiting(task, st, "getLockoutStatus.removeItem", Null, FALSE)
               ELSE Awaiting(task, st, "verifyAdminPassword.getItem", Null, FALSE)
          [] task.pc = "getLockoutStatus.removeItem" ->
               \* auth.js:129-130, 195
               Awaiting(task, [ st EXCEPT !.FAILED_ATTEMPTS = Null ],
                        "verifyAdminPassword.getItem", Null, FALSE)
          [] task.pc = "verifyAdminPassword.getItem" ->
               \* auth.js:195-211
               IF credentials = Null THEN Settled(task, st, "NotSetUp")
               ELSE IF hashed(PasswordInputs[task.password], credentials.salt)
                          # credentials.hash
               THEN Awaiting(task, st, "recordFailedAttempt.getItem", Null, TRUE)
               ELSE Awaiting(task, st, "clearFailedAttempts.removeItem", Null, FALSE)
          [] task.pc = "recordFailedAttempt.getItem" ->
               \* auth.js:145-159
               Awaiting(task, st, "recordFailedAttempt.setItem",
                        IF ReachesLimit(attempts)
                        THEN [ attempts |-> attempts, lockoutUntil |-> t + LOCKOUT_DURATION ]
                        ELSE [ attempts |-> attempts ],
                        FALSE)
          [] task.pc = "recordFailedAttempt.setItem" ->
               \* auth.js:159-165, 203-207
               Settled(task, [ st EXCEPT !.FAILED_ATTEMPTS = task.held ],
                       IF ReachesLimit(task.held.attempts)
                       THEN "TooManyAttempts" ELSE "InvalidPassword")
          [] task.pc = "clearFailedAttempts.removeItem" ->
               \* auth.js:177, 214-220
               Awaiting(task, [ st EXCEPT !.FAILED_ATTEMPTS = Null ],
                        "verifyAdminPassword.setItem", newSession(t, SaltA, SaltA), FALSE)
          [] task.pc = "verifyAdminPassword.setItem" ->
               \* auth.js:220-222
               Settled(task, [ st EXCEPT !.AUTH_SESSION = task.held ], "success")
          [] task.pc = "extendSession.getItem" ->
               \* auth.js:263-271
               IF session = Null THEN Settled(task, st, "false")
               ELSE Awaiting(task, st, "extendSession.setItem",
                             [ session EXCEPT !.expiresAt = t + SESSION_TIMEOUT ], FALSE)
          [] task.pc = "extendSession.setItem" ->
               \* auth.js:271-272
               Settled(task, [ st EXCEPT !.AUTH_SESSION = task.held ], "true")
          [] task.pc = "logout.removeItem" ->
               \* auth.js:284-285
               Settled(task, [ st EXCEPT !.AUTH_SESSION = Null ], "true")

\* the calls of verifyAdminPassword under way
Verifying == { i \in DOMAIN tasks : tasks[i].op = "verifyAdminPassword" }

\* tasks without its i-th call
Without(i) == SubSeq(tasks, 1, i - 1) \o SubSeq(tasks, i + 1, Len(tasks))

\* a call is made while others are under way
StartCall ==
    \E c \in DOMAIN CallInputs :
        /\ Len(tasks) < MaxInFlight
        /\ CallInputs[c].op = "verifyAdminPassword"
           => wrongRun + Cardinality(Verifying) < MaxWrong
        /\ tasks' = Append(tasks, CallInputs[c])
        /\ UNCHANGED << authVars, barcodeData, reply, scanHistory, scans, furniture >>

\* the await of one of the calls under way is over.  wrongRun counts the wrong
\* passwords compared while no lockout was stored, since the last removal of
\* the failed-attempt record; reply is the last to have returned of logout
\* and of a successful verifyAdminPassword
ContinueCall ==
    \E i \in DOMAIN tasks :
    \E r \in { Await(tasks[i], storage, now) } :
        /\ storage' = r.st
        /\ tasks' = IF r.pc = "done" THEN Without(i)
                    ELSE [ tasks EXCEPT ![i] = Task(tasks[i].op, r.pc, tasks[i].password, r.held) ]
        /\ wrongRun' = IF tasks[i].pc \in { "clearFailedAttempts.removeItem",
                                             "getLockoutStatus.removeItem" }
                       THEN 0
                       ELSE IF r.compared /\ ~HasLockout(storage.FAILED_ATTEMPTS)
                       THEN wrongRun + 1
                       ELSE wrongRun
        /\ reply' = IF tasks[i].op = "logout" /\ r.pc = "done" THEN [ op |-> "logout" ]
                    ELSE IF r.outcome = "success" THEN [ op |-> "verifyAdminPassword" ]
                    ELSE reply
        /\ UNCHANGED << now, last, adminPassword, lockEnd, barcodeData, scanHistory,
                        scans, furniture >>

\* the password "secret1" has been set up, and no call is under way
InitOverlap ==
    /\ now = 0
    /\ storage = setupAdminPassword(EmptyStorage, 0, PwSecret, SaltA, {}).st
    /\ last = NoCall
    /\ adminPassword = PwSecret
    /\ wrongRun = 0
    /\ lockEnd = 0
    /\ barcodeData = barcodeDataSeed
    /\ reply = NoReply
    /\ scanHistory = Null
    /\ scans = 0
    /\ furniture = [ selectedStyle |-> Null, selectedMaterial |-> Null,
                     generatedImage |-> Null ]
    /\ tasks = << >>

NextOverlap ==
    \/ StartCall
    \/ ContinueCall

\* verifyAdminPassword, extendSession and logout, their calls overlapping
SpecOverlap == InitOverlap /\ [][NextOverlap]_vars

\* ------------------------------------------------------------ properties

\* a failed-attempt record with lockoutUntil set and in the future is stored
LockedAt(st, t) ==
    /\ st.FAILED_ATTEMPTS # Null
    /\ "lockoutUntil" \in DOMAIN st.FAILED_ATTEMPTS
    /\ t < st.FAILED_ATTEMPTS.lockoutUntil

\* the call that has just returned is op and failed with the error kind
Failed(l, op, kind) == l.op = op /\ l.thrown /\ l.value.error = kind

\* the step is a verifyAdminPassword call that compared a wrong password, the
\* wrongRun'-th in a row since the last success, lockout expiry or reset
WrongCompared ==
    /\ last'.op = "verifyAdminPassword"
    /\ wrongRun' # wrongRun
    /\ wrongRun' >= 1

\* C1: of five wrong passwords verified in a row, starting with no
\* failed-attempt record, the first four fail with InvalidPassword and the
\* fifth fails with TooManyAttempts and stores lockoutUntil = now + 15 minutes,
\* after which getLockoutStatus reports isLocked
C1_FifthWrongPasswordLocks ==
    [][ WrongCompared =>
          /\ wrongRun' \in 1 .. 4 => Failed(last', "verifyAdminPassword", "InvalidPassword")
          /\ wrongRun' = 5 =>
               /\ Failed(last', "verifyAdminPassword", "TooManyAttempts")
               /\ storage'.FAILED_ATTEMPTS # Null
               /\ "lockoutUntil" \in DOMAIN storage'.FAILED_ATTEMPTS
               /\ storage'.FAILED_ATTEMPTS.lockoutUntil = now' + 15 * 60 * 1000
               /\ getLockoutStatus(storage', now', {}).value.isLocked
          /\ wrongRun' <= 5 ]_vars

C1_Witness ==
    /\ Failed(last, "verifyAdminPassword", "TooManyAttempts")
    /\ wrongRun = 5
    /\ LockedAt(storage, now)

\* C2: while a lockout is in force every verifyAdminPassword call, with the
\* right password or a wrong one, fails with LockedOut and stores nothing
C2_LockedOutWhateverThePassword ==
    [][ (Idle /\ LockedAt(storage, now) /\ last'.op = "verifyAdminPassword") =>
          /\ Failed(last', "verifyAdminPassword", "LockedOut")
          /\ storage' = storage ]_vars

C2_Witness ==
    /\ Failed(last, "verifyAdminPassword", "LockedOut")
    /\ last.right
    /\ LockedAt(storage, now)

\* C3: with a credential stored and no lockout in force, verifyAdminPassword
\* with the password the credential was made from returns success and the
\* token of the session it stores, whose expiresAt is now + 30 minutes, and
\* isSessionValid called at once returns true
C3_RightPasswordOpensSession ==
    [][ ( /\ Idle
          /\ storage.ADMIN_CREDENTIALS # Null
          /\ ~LockedAt(storage, now)
          /\ last'.op = "verifyAdminPassword"
          /\ last'.right ) =>
          /\ ~last'.thrown
          /\ last'.value.success
          /\ storage'.AUTH_SESSION # Null
          /\ last'.value.token = storage'.AUTH_SESSION.token
          /\ storage'.AUTH_SESSION.expiresAt = now' + 30 * 60 * 1000
          /\ isSessionValid(storage', now', {}).value ]_vars

C3_Witness ==
    /\ last.op = "verifyAdminPassword"
    /\ last.right
    /\ ~last.thrown
    /\ storage.AUTH_SESSION # Null
    /\ storage.AUTH_SESSION.createdAt = now

\* isSessionValid returns true exactly when a session is stored and
\* now < expiresAt (C4): violated, see the call at the instant now = expiresAt
C4_ValidExactlyBeforeExpiry ==
    [][ (Idle /\ last'.op = "isSessionValid") =>
          last'.value <=> ( /\ storage.AUTH_SESSION # Null
                            /\ now < storage.AUTH_SESSION.expiresAt ) ]_vars

\* isSessionValid called while the stored session is expired, now >= expiresAt,
\* returns false and deletes the session, leaving the credential and the
\* failed-attempt record as they were (C5): violated at now = expiresAt, where
\* the call of C4 answers true and deletes nothing
C5_ExpiredSessionDeleted ==
    [][ ( /\ Idle
          /\ storage.AUTH_SESSION # Null
          /\ now >= storage.AUTH_SESSION.expiresAt
          /\ last'.op = "isSessionValid" ) =>
          /\ last'.value = FALSE
          /\ storage' = [ storage EXCEPT !.AUTH_SESSION = Null ]
          /\ ~isSessionValid(storage', now', {}).value ]_vars

\* C6: the k-th wrong password compared in a row since the last success or
\* lockout expiry, 1 <= k <= 4, fails with InvalidPassword and
\* remainingAttempts = 5 - k; so the first one after a success reports 4
C6_RemainingAttempts ==
    [][ (WrongCompared /\ wrongRun' \in 1 .. 4) =>
          /\ Failed(last', "verifyAdminPassword", "InvalidPassword")
          /\ last'.value.remainingAttempts = 5 - wrongRun' ]_vars

C6_Witness ==
    /\ Failed(last, "verifyAdminPassword", "InvalidPassword")
    /\ wrongRun = 1
    /\ last.before = 0
    /\ last.value.remainingAttempts = 4
    /\ storage.AUTH_SESSION # Null

\* the storage after n more verifyAdminPassword calls at t, each with a
\* password too short to be the credential's
RECURSIVE AfterWrong(_, _, _)
AfterWrong(st, t, n) ==
    IF n = 0 THEN st
    ELSE AfterWrong(verifyAdminPassword(st, t, PwShort, SaltA, SaltA, {}).st, t, n - 1)

\* C7: a successful verifyAdminPassword removes the failed-attempt record:
\* getLockoutStatus then reports attempts = 0 and isLocked = false, and it
\* takes five more wrong passwords in a row to set a lockout
C7_SuccessClearsFailedAttempts ==
    [][ (Idle /\ last'.op = "verifyAdminPassword" /\ ~last'.thrown) =>
          /\ storage'.FAILED_ATTEMPTS = Null
          /\ getLockoutStatus(storage', now', {}).value.attempts = 0
          /\ ~getLockoutStatus(storage', now', {}).value.isLocked
          /\ \A k \in 0 .. 4 : ~LockedAt(AfterWrong(storage', now', k), now')
          /\ LockedAt(AfterWrong(storage', now', 5), now') ]_vars

C7_Witness ==
    /\ last.op = "verifyAdminPassword"
    /\ ~last.thrown
    /\ last.before = 4
    /\ storage.FAILED_ATTEMPTS = Null

\* a failed-attempt record whose lockout has run out is stored
ExpiredAt(st, t) ==
    /\ st.FAILED_ATTEMPTS # Null
    /\ "lockoutUntil" \in DOMAIN st.FAILED_ATTEMPTS
    /\ t >= st.FAILED_ATTEMPTS.lockoutUntil

\* C8: once now >= lockoutUntil, getLockoutStatus deletes the failed-attempt
\* record and reports isLocked = false, attempts = 0; verifyAdminPassword
\* succeeds with the right password and fails with InvalidPassword,
\* remainingAttempts = 4, with a wrong one; and until such a read (or the
\* deletion of everything by resetAuthData) the record stays stored, however
\* much time passes
C8_ExpiredLockoutReclaimedOnRead ==
    [][ ExpiredAt(storage, now) =>
          /\ last'.op = "getLockoutStatus" =>
               /\ storage' = [ storage EXCEPT !.FAILED_ATTEMPTS = Null ]
               /\ last'.value = [ isLocked |-> FALSE, remainingTime |-> 0, attempts |-> 0 ]
          /\ (last'.op = "verifyAdminPassword" /\ last'.right) =>
               /\ ~last'.thrown
               /\ last'.value.success
               /\ storage'.FAILED_ATTEMPTS = Null
          /\ (last'.op = "verifyAdminPassword" /\ ~last'.right) =>
               /\ Failed(last', "verifyAdminPassword", "InvalidPassword")
               /\ last'.value.remainingAttempts = 4
               /\ storage'.FAILED_ATTEMPTS = [ attempts |-> 1 ]
          /\ last'.op \notin { "getLockoutStatus", "verifyAdminPassword",
                               "changeAdminPassword", "resetAuthData" } =>
               storage'.FAILED_ATTEMPTS = storage.FAILED_ATTEMPTS ]_vars

C8_Witness ==
    /\ last.op = "getLockoutStatus"
    /\ last.before = 5
    /\ now >= lockEnd
    /\ now > 15 * 60 * 1000
    /\ storage.FAILED_ATTEMPTS = Null
    /\ storage.ADMIN_CREDENTIALS # Null
    /\ last.value.attempts = 0

\* every verifyAdminPassword call during which a storage call fails, fails
\* with AuthenticationFailed (C9): violated, the failures inside
\* getLockoutStatus, recordFailedAttempt and clearFailedAttempts are caught
\* there and the verification goes on
C9_StorageFailureFailsVerification ==
    (last.op = "verifyAdminPassword" /\ last.rejected # {}) =>
        Failed(last, "verifyAdminPassword", "AuthenticationFailed")

\* no call lets the error of a failed storage call reach its caller (C10):
\* violated by changeAdminPassword, whose write of the new credential is
\* outside any try block
C10_NoStorageErrorReachesCaller ==
    (last.op # "none" /\ last.rejected # {} /\ last.thrown) =>
        last.value.error \in { "SetupFailed", "AuthenticationFailed", "InvalidPassword",
                               "TooManyAttempts", "LockedOut", "NotSetUp", "WeakPassword" }

\* C11: setupAdminPassword with a password absent or shorter than six
\* characters fails with WeakPassword and leaves the storage as it was; with
\* any other password it stores a credential hashed with the salt it drew in
\* place of whatever credential there was, touching nothing else, after which
\* isAdminSetup is true and, no lockout being in force, verifyAdminPassword
\* with that password succeeds
C11_SetupStoresCredential ==
    [][ (Idle /\ last'.op = "setupAdminPassword") =>
          IF last'.weak
          THEN /\ Failed(last', "setupAdminPassword", "WeakPassword")
               /\ storage' = storage
          ELSE /\ ~last'.thrown
               /\ last'.value = TRUE
               /\ storage'.ADMIN_CREDENTIALS # Null
               /\ storage'.ADMIN_CREDENTIALS.salt \in Salts
               /\ storage'.ADMIN_CREDENTIALS.hash =
                      hashTable[ArgOf(adminPassword')][storage'.ADMIN_CREDENTIALS.salt]
               /\ storage'.AUTH_SESSION = storage.AUTH_SESSION
               /\ storage'.FAILED_ATTEMPTS = storage.FAILED_ATTEMPTS
               /\ isAdminSetup(storage', {}).value
               /\ ~LockedAt(storage', now') =>
                      LET v == verifyAdminPassword(storage', now', adminPassword',
                                                   SaltA, SaltA, {})
                      IN  ~v.thrown /\ v.value.success ]_vars

\* a credential replaced by one made from another password with another salt
C11_Witness ==
    /\ last.op = "setupAdminPassword"
    /\ ~last.thrown
    /\ last.before > 0
    /\ storage.ADMIN_CREDENTIALS.createdAt = now
    /\ now > 0
    /\ storage.ADMIN_CREDENTIALS.salt = SaltB
    /\ adminPassword = PwOther

\* the attempts counted so far at t: none without a record or once its
\* lockout has run out
CountedAt(st, t) ==
    IF st.FAILED_ATTEMPTS = Null \/ ExpiredAt(st, t) THEN 0
    ELSE st.FAILED_ATTEMPTS.attempts

C13_ChangeReplacesCredential ==
    [][ (Idle /\ last'.op = "changeAdminPassword" /\ ~last'.thrown) =>
          /\ last'.right
          /\ ~last'.weak
          /\ storage'.ADMIN_CREDENTIALS # Null
          /\ storage'.AUTH_SESSION = Null
          /\ ~isSessionValid(storage', now', {}).value
          /\ storage'.FAILED_ATTEMPTS = Null
          /\ LET v == verifyAdminPassword(storage', now', adminPassword', SaltA, SaltA, {})
             IN  ~v.thrown /\ v.value.success
          /\ adminPassword' # adminPassword =>
               LET v == verifyAdminPassword(storage', now', adminPassword, SaltA, SaltA, {})
               IN  /\ v.thrown
                   /\ v.value = [ error |-> "InvalidPassword", remainingAttempts |-> 4 ] ]_vars

\* a password changed, after wrong passwords, while a session was stored
C13_Witness ==
    /\ last.op = "changeAdminPassword"
    /\ ~last.thrown
    /\ last.before > 0
    /\ adminPassword = PwOther
    /\ storage.ADMIN_CREDENTIALS.createdAt = now
    /\ storage.AUTH_SESSION = Null
    /\ now > 0

\* C14: extendSession returns false and leaves the storage as it was when no
\* session is stored; otherwise it returns true and sets the session's
\* expiresAt to now + 30 minutes, leaving its token and createdAt, the
\* credential and the failed-attempt record as they were
C14_ExtendSlidesExpiry ==
    [][ (Idle /\ last'.op = "extendSession") =>
          IF storage.AUTH_SESSION = Null
          THEN last'.value = FALSE /\ storage' = storage
          ELSE /\ last'.value = TRUE
               /\ storage' =
                    [ storage EXCEPT !.AUTH_SESSION =
                        [ token |-> storage.AUTH_SESSION.token,
                          createdAt |-> storage.AUTH_SESSION.createdAt,
                          expiresAt |-> now + 30 * 60 * 1000 ] ] ]_vars

\* a session extended later than it was created
C14_Witness ==
    /\ last.op = "extendSession"
    /\ last.value
    /\ storage.AUTH_SESSION # Null
    /\ storage.AUTH_SESSION.createdAt < now
    /\ storage.AUTH_SESSION.expiresAt = now + 30 * 60 * 1000

\* once expiresAt has passed, the next isSessionValid or extendSession reports
\* the session invalid and removes it (C15): violated by extendSession, which
\* does not look at expiresAt and gives an expired session 30 more minutes
C15_ExpiredSessionNeverRevived ==
    [][ ( /\ Idle
          /\ storage.AUTH_SESSION # Null
          /\ now > storage.AUTH_SESSION.expiresAt
          /\ last'.op \in { "isSessionValid", "extendSession" } ) =>
          /\ last'.value = FALSE
          /\ storage'.AUTH_SESSION = Null ]_vars

\* C16: resetAuthData removes the credential, the session and the
\* failed-attempt record in one step, whatever was stored: afterwards
\* isAdminSetup and isSessionValid are false, getLockoutStatus reports
\* isLocked = false and attempts = 0, and verifyAdminPassword fails with
\* NotSetUp
C16_ResetRemovesEverything ==
    [][ (Idle /\ last'.op = "resetAuthData") =>
          /\ last'.value = TRUE
          /\ storage'.ADMIN_CREDENTIALS = Null
          /\ storage'.AUTH_SESSION = Null
          /\ storage'.FAILED_ATTEMPTS = Null
          /\ ~isAdminSetup(storage', {}).value
          /\ ~isSessionValid(storage', now', {}).value
          /\ getLockoutStatus(storage', now', {}).value =
                [ isLocked |-> FALSE, remainingTime |-> 0, attempts |-> 0 ]
          /\ \A i \in PasswordArgs :
                LET v == verifyAdminPassword(storage', now', PasswordInputs[i],
                                             SaltA, SaltA, {})
                IN  v.thrown /\ v.value = [ error |-> "NotSetUp" ] ]_vars

\* a reset during the lockout that the fifth wrong password at instant 0 set
C16_Witness ==
    /\ last.op = "resetAuthData"
    /\ last.value
    /\ last.before = 5
    /\ now = 0
    /\ storage.FAILED_ATTEMPTS = Null

\* the barcode arguments that do not match /^(STYLE|MAT)-\d{3,}$/: those that
\* are no strings, the empty string, and the nine strings listed with their flaw
MalformedArgs == 1 .. 12

\* C17: for every argument that does not match /^(STYLE|MAT)-\d{3,}$/, be it no
\* string, empty, without dash, with a lower-case prefix, with fewer than
\* three digits or with whitespace around it, isValidBarcode returns false,
\* getBarcodeData returns null, and addBarcode throws the format error and
\* leaves the catalog as it was.
C17_MalformedIdRefused ==
    [][ (Ready /\ reply'.op # "none" /\ reply'.op # "getBarcodesByType"
               /\ reply'.arg \in MalformedArgs)
        => /\ reply'.op = "isValidBarcode" => reply'.valid = FALSE
           /\ reply'.op = "getBarcodeData" => reply'.found = Null
           /\ reply'.op = "addBarcode"
              => /\ reply'.thrown
                 /\ reply'.error = "InvalidFormat"
                 /\ barcodeData' = barcodeData ]_vars

\* addBarcode has refused STYLE-01, with fields to store, after an entry was added
C17_Witness ==
    /\ reply.op = "addBarcode"
    /\ reply.arg = 7
    /\ reply.fields = 2
    /\ reply.thrown
    /\ Len(barcodeData) > Len(barcodeDataSeed)

\* the names of the fields given to addBarcode
FieldsOf(fields) == IF fields = Null THEN {} ELSE DOMAIN fields

\* C18: after addBarcode(id, f) with a valid id, getBarcodeData(id) returns
\* exactly { id, ...f }: the fields of f with their values, id where f has
\* none of its own, and nothing else. It is so as well when id was stored
\* already: no field of the record replaced is left unless f has it.
C18_InsertStoresExactlyTheFields ==
    [][ (Ready /\ reply'.op = "addBarcode" /\ ~reply'.thrown)
        => LET id == BarcodeInputs[reply'.arg]
               f == FieldInputs[reply'.fields]
               replaced == getBarcodeData(barcodeData, id)
               found == getBarcodeData(barcodeData', id)
           IN  /\ found # Null
               /\ DOMAIN found = { "id" } \cup FieldsOf(f)
               /\ \A k \in FieldsOf(f) : found[k] = f[k]
               /\ "id" \notin FieldsOf(f) => found.id = id
               /\ replaced # Null
                  => \A k \in DOMAIN replaced \ ({ "id" } \cup FieldsOf(f)) :
                         k \notin DOMAIN found ]_vars

\* STYLE-001 of the seed, stored with a description and an imageUrl, was added
\* again with fields that have neither
C18_Witness ==
    /\ reply.op = "addBarcode"
    /\ reply.arg = 13
    /\ reply.fields = 3
    /\ ~reply.thrown
    /\ getBarcodeData(barcodeDataSeed, BarcodeInputs[13]) # Null
    /\ DOMAIN getBarcodeData(barcodeData, BarcodeInputs[13]) = { "id", "type", "name" }

\* the places of the catalog whose record has a type field equal to type
PlacesOfType(data, type) ==
    { i \in DOMAIN data : "type" \in DOMAIN data[i].value /\ data[i].value.type = type }

\* C19: after the seed and any additions, getBarcodesByType(t) returns exactly
\* the records now stored whose type is t: every record returned is stored
\* and has type t, every stored record of type t is returned, once for each
\* place it is stored at, those added after the seed included; where no
\* stored record has type t the list is empty.
C19_ListedExactlyByType ==
    [][ (Ready /\ reply'.op = "getBarcodesByType")
        => LET list == reply'.list
               places == PlacesOfType(barcodeData, reply'.type)
           IN  /\ \A n \in DOMAIN list :
                      \E i \in places : barcodeData[i].value = list[n]
               /\ \A i \in places :
                      \E n \in DOMAIN list : list[n] = barcodeData[i].value
               /\ Len(list) = Cardinality(places)
               /\ places = {} => list = << >> ]_vars

\* the materials are listed after MAT-700 was added as one and STYLE-001 was
\* made one
C19_Witness ==
    /\ reply.op = "getBarcodesByType"
    /\ reply.type = "material"
    /\ \E n \in DOMAIN reply.list : reply.list[n].id = Barcode(MAT, 7, 0, 0)
    /\ \E n \in DOMAIN reply.list : reply.list[n].id = Barcode(STYLE, 0, 0, 1)
    /\ Len(reply.list) = 8

\* the ids of the catalog, in the order Object.values goes through them
KeysOf(data) == [ i \in 1 .. Len(data) |-> data[i].key ]

\* C20: getBarcodesByType(t) returns its records in insertion order. The ids
\* of the seed come first, in the order of the seed; an id added for the
\* first time goes after all the others; an id added again keeps its place;
\* and the list has the records of type t in the order of their ids.
C20_ListedInInsertionOrder ==
    [][ /\ SubSeq(KeysOf(barcodeData'), 1, Len(barcodeDataSeed)) = KeysOf(barcodeDataSeed)
        /\ (Ready /\ reply'.op = "addBarcode" /\ ~reply'.thrown)
           => LET id == BarcodeInputs[reply'.arg]
              IN  IF \E i \in DOMAIN barcodeData : barcodeData[i].key = id
                  THEN KeysOf(barcodeData') = KeysOf(barcodeData)
                  ELSE KeysOf(barcodeData') = Append(KeysOf(barcodeData), id)
        /\ (Ready /\ reply'.op = "getBarcodesByType")
           => LET list == reply'.list
                  places == PlacesOfType(barcodeData, reply'.type)
              IN  /\ Len(list) = Cardinality(places)
                  /\ \A i \in places :
                         list[Cardinality({ j \in places : j <= i })]
                             = barcodeData[i].value ]_vars

\* the styles are listed after STYLE-001 of the seed was added again, and
\* STYLE-0600 and then MAT-700 were added as styles
C20_Witness ==
    /\ reply.op = "getBarcodesByType"
    /\ reply.type = "style"
    /\ Len(barcodeData) = Len(barcodeDataSeed) + 2
    /\ barcodeData[Len(barcodeData)].key = Barcode(MAT, 7, 0, 0)
    /\ reply.list[1].id = Barcode(STYLE, 0, 0, 1)
    /\ reply.list[1].name = "Original"
    /\ reply.list[Len(reply.list)].id = Barcode(MAT, 7, 0, 0)
    /\ reply.list[Len(reply.list) - 1].id = BarcodeInputs[14]

\* the ids getBarcodeData finds a record for
Resolvable(data) ==
    { i \in DOMAIN data : getBarcodeData(data, data[i].key) # Null }

\* C21: no call of the catalog deletes a record. Every id getBarcodeData finds
\* a record for before a call, it finds a record for after it, the ids of the
\* seed and the ids added alike; and isValidBarcode, getBarcodeData and
\* getBarcodesByType leave the catalog as it was.
C21_NoRecordDeleted ==
    [][ /\ \A i \in DOMAIN barcodeData :
               getBarcodeData(barcodeData, barcodeData[i].key) # Null
               => getBarcodeData(barcodeData', barcodeData[i].key) # Null
        /\ \A i \in DOMAIN barcodeDataSeed :
               getBarcodeData(barcodeData', barcodeDataSeed[i].key) # Null
        /\ (Ready /\ reply'.op \in { "isValidBarcode", "getBarcodeData", "getBarcodesByType" })
           => barcodeData' = barcodeData ]_vars

\* MAT-700 was added to a catalog that had STYLE-0600 added and STYLE-001
\* added again, and all thirteen ids have a record
C21_Witness ==
    /\ reply.op = "addBarcode"
    /\ reply.arg = 15
    /\ ~reply.thrown
    /\ Len(barcodeData) = Len(barcodeDataSeed) + 2
    /\ barcodeData[Len(barcodeData)].key = BarcodeInputs[15]
    /\ barcodeData[1].value # barcodeDataSeed[1].value
    /\ Resolvable(barcodeData) = DOMAIN barcodeData

\* C25: every record of the catalog has an id equal to the key it is stored
\* under: getBarcodeData(k).id = k for every k it finds a record for, in the
\* seed and after any additions, whatever the fields given, an id among them
\* included.
C25_IdIsTheKey ==
    \A i \in DOMAIN barcodeData :
        LET k == barcodeData[i].key
        IN  getBarcodeData(barcodeData, k) # Null
            => getBarcodeData(barcodeData, k).id = k

\* the array stored under SCAN_HISTORY, empty where nothing is stored
StoredHistory(stored) == IF stored = Null THEN << >> ELSE stored.json

\* C22: the stored scan history never has more than 50 entries and has the
\* newest first: every addToScanHistory that returns true puts the new entry at
\* index 0, keeps the entries stored before behind it in their order, and
\* drops those beyond the 50th; when the write rejects it returns false and
\* the stored history is as it was.
C22_HistoryNewestFirstAtMostFifty ==
    [][ (Ready /\ reply'.op = "addToScanHistory")
        => LET before == StoredHistory(scanHistory)
               after == StoredHistory(scanHistory')
           IN  /\ Len(after) <= HISTORY_LIMIT
               /\ reply'.value
                  => /\ after[1] = NewEntry(ScanInputs[reply'.scan], now, reply'.random)
                     /\ Len(after) = IF Len(before) < HISTORY_LIMIT
                                     THEN Len(before) + 1 ELSE HISTORY_LIMIT
                     /\ \A i \in 2 .. Len(after) : after[i] = before[i - 1]
               /\ "setItem" \in reply'.rejected
                  => ~reply'.value /\ scanHistory' = scanHistory ]_vars

\* C23: setSelectedStyle(s) sets selectedStyle to s, sets generatedImage to
\* null and leaves selectedMaterial as it was; setSelectedMaterial and
\* setGeneratedImage leave selectedStyle as it was, so that the style selected
\* stays through any number of material scans until another is set.
C23_StyleResetsImageOnly ==
    [][ /\ (Ready /\ reply'.op = "setSelectedStyle")
           => /\ furniture'.selectedStyle = StyleInputs[reply'.arg]
              /\ furniture'.generatedImage = Null
              /\ furniture'.selectedMaterial = furniture.selectedMaterial
        /\ (Ready /\ reply'.op \in { "setSelectedMaterial", "setGeneratedImage" })
           => furniture'.selectedStyle = furniture.selectedStyle
        /\ reply'.op # "setSelectedStyle"
           => furniture'.selectedStyle = furniture.selectedStyle ]_vars

\* another style has been set while a material was selected, and no image is left
C23_Witness ==
    /\ reply.op = "setSelectedStyle"
    /\ reply.arg = 3
    /\ furniture.selectedStyle = StyleInputs[3]
    /\ furniture.selectedMaterial = MaterialInputs[2]
    /\ furniture.generatedImage = Null

\* C24: over a storage that never fails, a failed-attempt record that is
\* stored has between 1 and MAX_FAILED_ATTEMPTS attempts, and has a
\* lockoutUntil exactly when its attempts are MAX_FAILED_ATTEMPTS.
C24_FailedAttemptsRecordShape ==
    storage.FAILED_ATTEMPTS # Null
    => /\ storage.FAILED_ATTEMPTS.attempts >= 1
       /\ storage.FAILED_ATTEMPTS.attempts <= 5
       /\ "lockoutUntil" \in DOMAIN storage.FAILED_ATTEMPTS
          <=> storage.FAILED_ATTEMPTS.attempts = 5

\* the record of the fifth wrong password is still stored after its lockout
\* has ended
C24_Witness ==
    /\ storage.FAILED_ATTEMPTS # Null
    /\ storage.FAILED_ATTEMPTS.attempts = 5
    /\ "lockoutUntil" \in DOMAIN storage.FAILED_ATTEMPTS
    /\ now >= storage.FAILED_ATTEMPTS.lockoutUntil
    /\ wrongRun = 5

\* C26: a verifyAdminPassword call that fails with LockedOut changes nothing
\* that is stored: the failed-attempt record, with its attempts and its
\* lockoutUntil, the credential and the session are after the call what they
\* were before it, so a guess during a lockout neither prolongs the lockout nor
\* counts as a failed attempt.
C26_LockedOutCallStoresNothing ==
    [][ (Idle /\ Failed(last', "verifyAdminPassword", "LockedOut"))
        => /\ storage'.FAILED_ATTEMPTS = storage.FAILED_ATTEMPTS
           /\ storage'.ADMIN_CREDENTIALS = storage.ADMIN_CREDENTIALS
           /\ storage'.AUTH_SESSION = storage.AUTH_SESSION
           /\ storage'.FAILED_ATTEMPTS.attempts = 5
           /\ storage'.FAILED_ATTEMPTS.lockoutUntil = lockEnd ]_vars

\* a wrong password was refused during a lockout, with a session still stored
C26_Witness ==
    /\ Failed(last, "verifyAdminPassword", "LockedOut")
    /\ ~last.right
    /\ storage.AUTH_SESSION # Null
    /\ storage.FAILED_ATTEMPTS # Null
    /\ storage.FAILED_ATTEMPTS.lockoutUntil = lockEnd

\* C27: the minutes a LockedOut failure carries are the ceiling of
\* (lockoutUntil - now) / 60000, now being an instant the call read the clock
\* at, and, the lockout being one verifyAdminPassword has set, lie between 1
\* and 15: they are never 0 while the call is refused as locked.
C27_LockedOutMinutes ==
    [][ (Idle /\ Failed(last', "verifyAdminPassword", "LockedOut"))
        => /\ \E t \in { now, now' } :
                  last'.value.minutes
                      = Ceil(storage.FAILED_ATTEMPTS.lockoutUntil - t, 60000)
           /\ last'.value.minutes >= 1
           /\ last'.value.minutes <= 15 ]_vars

\* C28: a session or a failed-attempt record is stored only where a credential
\* is: without a credential there is neither, and verifyAdminPassword then
\* fails with NotSetUp and records no failed attempt.
C28_NothingWithoutCredential ==
    [][ /\ storage'.ADMIN_CREDENTIALS = Null
           => /\ storage'.AUTH_SESSION = Null
              /\ storage'.FAILED_ATTEMPTS = Null
        /\ (Idle /\ storage.ADMIN_CREDENTIALS = Null /\ last'.op = "verifyAdminPassword"
                 /\ last'.rejected = {})
           => /\ Failed(last', "verifyAdminPassword", "NotSetUp")
              /\ storage' = storage
              /\ storage'.FAILED_ATTEMPTS = Null ]_vars

\* verifyAdminPassword was refused where no credential is stored, some time
\* after the start
C28_Witness ==
    /\ Failed(last, "verifyAdminPassword", "NotSetUp")
    /\ storage = EmptyStorage
    /\ adminPassword = Null
    /\ now > 0

\* C29: logout is final, also among overlapping calls: once logout has
\* returned, no session is stored until a verifyAdminPassword has succeeded,
\* even if an extendSession read the session before the logout and writes
\* after it.
C29_LogoutIsFinal ==
    reply.op = "logout" => storage.AUTH_SESSION = Null

\* C30: the threshold of the lockout holds among overlapping calls: every
\* recordFailedAttempt adds one to the attempts stored, so that no more than
\* MAX_FAILED_ATTEMPTS wrong passwords are compared before a lockout is stored.
C30_ThresholdUnderOverlap ==
    [][ /\ wrongRun' <= 5
        /\ (storage'.FAILED_ATTEMPTS # Null
            /\ \E i \in DOMAIN tasks : /\ tasks[i].pc = "recordFailedAttempt.setItem"
                                       /\ tasks[i].held = storage'.FAILED_ATTEMPTS
                                       /\ Len(tasks') < Len(tasks))
           => storage'.FAILED_ATTEMPTS.attempts
                  = 1 + (IF storage.FAILED_ATTEMPTS = Null THEN 0
                         ELSE storage.FAILED_ATTEMPTS.attempts) ]_vars
====
